---- MODULE Spec2Model ----
(***************************************************************************)
(* Model of the voice-driven generative browser: the retry/backoff wrapper *)
(* generateWithRetry of services/gemini, the failure classification it     *)
(* shares with App.handleApiError, the App handlers around them, the       *)
(* functions of the service boundary (output normalizer, request builder,  *)
(* fileToBase64) called by themselves, and InputArea with the timeout of   *)
(* its auto-submit effect.                                                 *)
(*                                                                         *)
(* Strings are sequences of one-character strings, so that toLowerCase,    *)
(* includes and JSON.stringify are computed and not assumed.               *)
(***************************************************************************)
EXTENDS Integers, Sequences, FiniteSets, TLC

(***************************************************************************)
(* Bounds of the model.                                                    *)
(***************************************************************************)
MaxRetries == 3
MaxRequests == 1
MaxOverlap == 2

(***************************************************************************)
(* Program constants.                                                      *)
(***************************************************************************)
DefaultRetries == 3
DefaultDelay == 2000
BackoffFactor == 2
TooManyRequests == 429
ServiceUnavailable == 503

InitialDelays == {500, DefaultDelay}

(***************************************************************************)
(* String helpers: String.prototype.toLowerCase / includes.                *)
(***************************************************************************)
UpperChars ==
  <<"A", "B", "C", "D", "E", "F", "G", "H", "I", "J", "K", "L", "M",
    "N", "O", "P", "Q", "R", "S", "T", "U", "V", "W", "X", "Y", "Z">>

LowerChars ==
  <<"a", "b", "c", "d", "e", "f", "g", "h", "i", "j", "k", "l", "m",
    "n", "o", "p", "q", "r", "s", "t", "u", "v", "w", "x", "y", "z">>

LowerChar(c) ==
  IF \E i \in 1..26 : UpperChars[i] = c
  THEN LowerChars[CHOOSE i \in 1..26 : UpperChars[i] = c]
  ELSE c

ToLowerCase(s) == [i \in 1..Len(s) |-> LowerChar(s[i])]

Includes(s, sub) ==
  \E i \in 0..(Len(s) - Len(sub)) :
    \A j \in 1..Len(sub) : s[i + j] = sub[j]

DigitChars == <<"0", "1", "2", "3", "4", "5", "6", "7", "8", "9">>

RECURSIVE NumStr(_)
NumStr(n) ==
  IF n < 10 THEN <<DigitChars[n + 1]>>
  ELSE NumStr(n \div 10) \o <<DigitChars[(n % 10) + 1]>>

RECURSIVE Join(_)
Join(parts) ==
  IF Len(parts) = 0 THEN <<>>
  ELSE IF Len(parts) = 1 THEN parts[1]
  ELSE parts[1] \o <<",">> \o Join(Tail(parts))

(***************************************************************************)
(* Markers searched for in a failure's text.                               *)
(***************************************************************************)
Str429 == <<"4", "2", "9">>
StrQuota == <<"q", "u", "o", "t", "a">>
StrResourceExhausted ==
  <<"r", "e", "s", "o", "u", "r", "c", "e", "_",
    "e", "x", "h", "a", "u", "s", "t", "e", "d">>

(***************************************************************************)
(* Failure values.  A failure is the object the remote call rejects with:  *)
(*   status      error.status           (0: absent)                        *)
(*   respStatus  error.response.status  (0: absent)                        *)
(*   errCode     error.error.code       (0: absent)                        *)
(*   errMsg      error.error.message    (<<>>: absent)                     *)
(*   message     error.message          (<<>>: absent or empty)            *)
(* JavaScript's || skips 0, "" and undefined alike, so one falsy value per *)
(* field is enough.                                                        *)
(***************************************************************************)
Failure(st, rs, ec, em, msg) ==
  [status |-> st, respStatus |-> rs, errCode |-> ec, errMsg |-> em, message |-> msg]

ErrorTable == <<
  (* 1: rate limited, status on the failure itself *)
  Failure(429, 0, 0, <<>>, <<"T", "o", "o", " ", "M", "a", "n", "y">>),
  (* 2: service unavailable *)
  Failure(503, 0, 0, <<>>, <<"U", "n", "a", "v", "a", "i", "l", "a", "b", "l", "e">>),
  (* 3: server error *)
  Failure(500, 0, 0, <<>>, <<"I", "n", "t", "e", "r", "n", "a", "l">>),
  (* 4: no status, the text mentions 429 *)
  Failure(0, 0, 0, <<>>, <<"H", "T", "T", "P", " ", "4", "2", "9">>),
  (* 5: no status, quota text in mixed case *)
  Failure(0, 0, 0, <<>>, <<"Q", "u", "o", "t", "a", " ", "h", "i", "t">>),
  (* 6: no status, gRPC style marker in upper case *)
  Failure(0, 0, 0, <<>>,
    <<"R", "E", "S", "O", "U", "R", "C", "E", "_",
      "E", "X", "H", "A", "U", "S", "T", "E", "D">>),
  (* 7: status nested under response *)
  Failure(0, 429, 0, <<>>, <<"F", "a", "i", "l", "e", "d">>),
  (* 8: JSON error body only: code and message nested under error *)
  Failure(0, 0, 503, <<"O", "v", "e", "r", "l", "o", "a", "d">>, <<>>),
  (* 9: outer status 500 in front of a nested 429 *)
  Failure(500, 429, 0, <<>>, <<"U", "p", "s", "t", "r", "e", "a", "m">>),
  (* 10: network failure *)
  Failure(0, 0, 0, <<>>, <<"F", "e", "t", "c", "h">>),
  (* 11: status only, no text at all *)
  Failure(500, 0, 0, <<>>, <<>>),
  (* 12: outer status 500, nested code 429, no text *)
  Failure(500, 0, 429, <<>>, <<>>),
  (* 13: the event FileReader.onerror rejects fileToBase64 with; it has    *)
  (* none of the fields looked at                                          *)
  Failure(0, 0, 0, <<>>, <<>>)
>>

(* the failures of the remote call *)
ErrIds == 1..12
(* the failure of the file reader *)
FileReadError == 13
NoError == 0

(***************************************************************************)
(* JSON.stringify(error): own fields in a fixed order, absent ones left    *)
(* out.  None of the texts above needs escaping.                           *)
(***************************************************************************)
JsonErrorBody(e) ==
  LET code == IF e.errCode # 0
              THEN <<<<"\"", "c", "o", "d", "e", "\"", ":">> \o NumStr(e.errCode)>>
              ELSE <<>>
      msg  == IF e.errMsg # <<>>
              THEN <<<<"\"", "m", "e", "s", "s", "a", "g", "e", "\"", ":", "\"">>
                     \o e.errMsg \o <<"\"">>>>
              ELSE <<>>
  IN  <<"\"", "e", "r", "r", "o", "r", "\"", ":", "{">> \o Join(code \o msg) \o <<"}">>

JsonStringify(e) ==
  LET st  == IF e.status # 0
             THEN <<<<"\"", "s", "t", "a", "t", "u", "s", "\"", ":">> \o NumStr(e.status)>>
             ELSE <<>>
      rs  == IF e.respStatus # 0
             THEN <<<<"\"", "r", "e", "s", "p", "o", "n", "s", "e", "\"", ":", "{",
                      "\"", "s", "t", "a", "t", "u", "s", "\"", ":">>
                    \o NumStr(e.respStatus) \o <<"}">>>>
             ELSE <<>>
      er  == IF e.errCode # 0 \/ e.errMsg # <<>> THEN <<JsonErrorBody(e)>> ELSE <<>>
      msg == IF e.message # <<>>
             THEN <<<<"\"", "m", "e", "s", "s", "a", "g", "e", "\"", ":", "\"">>
                    \o e.message \o <<"\"">>>>
             ELSE <<>>
  IN  <<"{">> \o Join(st \o rs \o er \o msg) \o <<"}">>

(***************************************************************************)
(* generateWithRetry: classification of a caught failure.                  *)
(***************************************************************************)
(* a || b || c on status codes *)
FirstTruthy(a, b, c) == IF a # 0 THEN a ELSE IF b # 0 THEN b ELSE c

ErrorStatus(e) == FirstTruthy(e.status, e.respStatus, e.errCode)

ErrorMessage(e) ==
  ToLowerCase(IF e.message # <<>> THEN e.message ELSE JsonStringify(e))

(* IsRateLimit without the message.includes('429') test *)
IsRateLimitNo429Text(e) ==
  \/ ErrorStatus(e) = TooManyRequests
  \/ ErrorStatus(e) = ServiceUnavailable
  \/ Includes(ErrorMessage(e), StrQuota)
  \/ Includes(ErrorMessage(e), StrResourceExhausted)

IsRateLimit(e) ==
  \/ ErrorStatus(e) = TooManyRequests
  \/ ErrorStatus(e) = ServiceUnavailable
  \/ Includes(ErrorMessage(e), Str429)
  \/ Includes(ErrorMessage(e), StrQuota)
  \/ Includes(ErrorMessage(e), StrResourceExhausted)

(* the classification of each failure of the table, computed once *)
RateLimited == [e \in ErrIds |-> IsRateLimit(ErrorTable[e])]

(***************************************************************************)
(* App.handleApiError: which alert a failure gets.                         *)
(***************************************************************************)
ApiErrorText(e) ==
  ToLowerCase(IF e.errMsg # <<>> THEN e.errMsg
              ELSE IF e.message # <<>> THEN e.message
              ELSE JsonStringify(e))

IsQuotaError(e) ==
  \/ Includes(ApiErrorText(e), Str429)
  \/ Includes(ApiErrorText(e), StrQuota)
  \/ Includes(ApiErrorText(e), StrResourceExhausted)
  \/ e.errCode = TooManyRequests
  \/ e.status = TooManyRequests

HandleApiError(e) == IF IsQuotaError(e) THEN "quota" ELSE "generic"

AlertFor == [e \in 1..Len(ErrorTable) |-> HandleApiError(ErrorTable[e])]

(***************************************************************************)
(* Model responses (response.text), as texts.                              *)
(***************************************************************************)
(* the grave accent, the character code fences are made of *)
BT == "GRAVE"

ResponseTable == <<
  (* 1: empty text *)
  <<>>,
  (* 2: bare markup *)
  <<"<", "p", ">">>,
  (* 3: markup wrapped in an html fence *)
  <<BT, BT, BT, "h", "t", "m", "l", "\n", "<", "p", ">", "\n", BT, BT, BT>>,
  (* 4: a fence and nothing else *)
  <<BT, BT, BT>>
>>

RespIds == 1..Len(ResponseTable)
NoResult == 0

(***************************************************************************)
(* The output normalizer of bringToLife and refineCode:                    *)
(*   text.replace(/^```html\s*/, '').replace(/^```\s*/, '')                *)
(*       .replace(/```$/, '')                                              *)
(* (in the comment above the grave accents stand for themselves).          *)
(***************************************************************************)
Fence == <<BT, BT, BT>>
HtmlTag == <<"h", "t", "m", "l">>

(* the characters \s matches, among those that occur in the model *)
IsSpace(c) == c \in {" ", "\n", "\t", "\r"}

StartsWith(s, pre) == Len(s) >= Len(pre) /\ SubSeq(s, 1, Len(pre)) = pre

EndsWith(s, suf) ==
  Len(s) >= Len(suf) /\ SubSeq(s, Len(s) - Len(suf) + 1, Len(s)) = suf

DropFirst(s, n) == SubSeq(s, n + 1, Len(s))

RECURSIVE SkipSpace(_)
SkipSpace(s) == IF s # <<>> /\ IsSpace(Head(s)) THEN SkipSpace(Tail(s)) ELSE s

(* replace(/^```html\s*/, '') *)
StripHtmlFence(s) ==
  IF StartsWith(s, Fence \o HtmlTag)
  THEN SkipSpace(DropFirst(s, Len(Fence \o HtmlTag)))
  ELSE s

(* replace(/^```\s*/, '') *)
StripOpenFence(s) ==
  IF StartsWith(s, Fence) THEN SkipSpace(DropFirst(s, Len(Fence))) ELSE s

(* replace(/```$/, '') *)
StripCloseFence(s) ==
  IF EndsWith(s, Fence) THEN SubSeq(s, 1, Len(s) - Len(Fence)) ELSE s

Normalize(s) == StripCloseFence(StripOpenFence(StripHtmlFence(s)))

(* a || b on texts *)
TextOr(a, b) == IF a # <<>> THEN a ELSE b

FailedComment ==
  <<"<", "!", "-", "-", " ", "F", "a", "i", "l", "e", "d", " ", "t", "o", " ",
    "g", "e", "n", "e", "r", "a", "t", "e", " ", "c", "o", "n", "t", "e", "n", "t",
    " ", "-", "-", ">">>

(* bringToLife, lines 103-106: what it returns for response v *)
BringToLifeResult(v) == Normalize(TextOr(ResponseTable[v], FailedComment))

(* what bringToLife returns for each response, computed once *)
BringToLifeResults == [v \in RespIds |-> BringToLifeResult(v)]

(* refineCode, lines 144-146: what it returns for response v *)
RefineCodeResult(v, currentHtml) == Normalize(TextOr(ResponseTable[v], currentHtml))

(***************************************************************************)
(* Files and App.fileToBase64.  A file is its type and the data URL the    *)
(* FileReader produces for it.                                             *)
(***************************************************************************)
FileTable == <<
  (* 1: a PNG picture *)
  [type   |-> <<"i", "m", "a", "g", "e", "/", "p", "n", "g">>,
   result |-> <<"d", "a", "t", "a", ":", "i", "m", "a", "g", "e", "/", "p", "n", "g",
                ";", "b", "a", "s", "e", "6", "4", ",", "Q", "U", "J", "D">>],
  (* 2: an empty file of unknown type *)
  [type   |-> <<>>,
   result |-> <<"d", "a", "t", "a", ":">>],
  (* 3: a file of unknown type, which the reader takes for octet-stream *)
  [type   |-> <<>>,
   result |-> <<"d", "a", "t", "a", ":", "a", "p", "p", "l", "i", "c", "a", "t", "i", "o", "n", "/",
                "o", "c", "t", "e", "t", "-", "s", "t", "r", "e", "a", "m",
                ";", "b", "a", "s", "e", "6", "4", ",", "Q", "U", "J", "D">>],
  (* 4: an empty PNG file *)
  [type   |-> <<"i", "m", "a", "g", "e", "/", "p", "n", "g">>,
   result |-> <<"d", "a", "t", "a", ":", "i", "m", "a", "g", "e", "/", "p", "n", "g",
                ";", "b", "a", "s", "e", "6", "4", ",">>]
>>

FileIds == 1..Len(FileTable)
NoFile == 0

Undefined == [defined |-> FALSE, text |-> <<>>]
Defined(s) == [defined |-> TRUE, text |-> s]

RECURSIVE UpToComma(_)
UpToComma(s) ==
  IF s = <<>> \/ Head(s) = "," THEN <<>> ELSE <<Head(s)>> \o UpToComma(Tail(s))

(* s.split(',')[1] *)
SplitComma1(s) ==
  IF \E i \in 1..Len(s) : s[i] = ","
  THEN Defined(UpToComma(DropFirst(s, Len(UpToComma(s)) + 1)))
  ELSE Undefined

(* fileToBase64, lines 44-47: the value the promise resolves with *)
FileToBase64(f) ==
  [data |-> SplitComma1(FileTable[f].result),
   mimeType |-> ToLowerCase(FileTable[f].type)]

(* a value inside a template literal *)
Interpolate(v) ==
  IF v.defined THEN v.text ELSE <<"u", "n", "d", "e", "f", "i", "n", "e", "d">>

(* handleGenerate, line 105 *)
ImageUrl(part) ==
  <<"d", "a", "t", "a", ":">> \o part.mimeType
    \o <<";", "b", "a", "s", "e", "6", "4", ",">> \o Interpolate(part.data)

(* the originalImage of each file, computed once *)
ImageUrls == [f \in FileIds |-> ImageUrl(FileToBase64(f))]

(***************************************************************************)
(* Creations.  id 0 stands for null.  The name and the timestamp of a      *)
(* creation, which the handlers write and never read, are left out.        *)
(***************************************************************************)
Creation(i, h, img) == [id |-> i, html |-> h, originalImage |-> img]

NoCreation == Creation(0, <<>>, <<>>)

(* the entry a previous session left in localStorage, made from the PNG    *)
(* picture                                                                 *)
SavedCreation == Creation(1, <<"<", "b", ">">>, ImageUrls[1])

FirstFreshId == 2

(* handleGenerate, lines 111-117 *)
NewCreation(i, html, imageUrl) == Creation(i, html, imageUrl)

RefinedCreationNoImage(i, base, updatedHtml) == Creation(i, updatedHtml, <<>>)

(* handleRefine, lines 136-142 *)
RefinedCreation(i, base, updatedHtml) ==
  [base EXCEPT !.id = i, !.html = updatedHtml]

(* String.prototype.trim, as far as emptiness goes *)
TrimIsEmpty(s) == \A i \in 1..Len(s) : IsSpace(s[i])

(***************************************************************************)
(* generateWithRetry(operation, retries, delay) as a state machine.  One   *)
(* record is one invocation; the self-call in the catch block is in tail   *)
(* position, so the frame of the callee replaces that of the caller.                  *)
(*   pc        "call" | "awaitOp" | "sleeping" | "returned" | "thrown"     *)
(*   retries   parameter retries of the current frame                      *)
(*   delay     parameter delay of the current frame                        *)
(*   error     the failure thrown                                          *)
(*   result    the value returned                                          *)
(*   attempts  number of calls of operation() so far          (history)    *)
(*   sleeps    the setTimeout delays requested so far          (history)   *)
(*   initRetries, initDelay  the arguments of the outermost call (history) *)
(***************************************************************************)
NewInvocation(r, d) ==
  [pc |-> "call", retries |-> r, delay |-> d, error |-> NoError,
   result |-> NoResult, attempts |-> 0, sleeps |-> <<>>,
   initRetries |-> r, initDelay |-> d]

RetryDone == {"returned", "thrown"}

(* line 48: operation() is called and awaited *)
InvokeOperation(rt) == [rt EXCEPT !.pc = "awaitOp", !.attempts = @ + 1]

(* line 48: the awaited promise fulfils, the value is returned *)
OnFulfilled(rt, v) == [rt EXCEPT !.pc = "returned", !.result = v]

ShouldRetryAnyFailure(isRateLimit, retries) == retries > 0

ShouldRetryInclusive(isRateLimit, retries) == isRateLimit /\ retries >= 0

(* line 62: if (isRateLimit && retries > 0) *)
ShouldRetry(isRateLimit, retries) == isRateLimit /\ retries > 0

NextRetriesByTwo(retries) == retries - 2

NextRetriesStuck(retries) == retries

(* line 65: retries - 1 *)
NextRetries(retries) == retries - 1

NextDelayLinear(delay) == delay + DefaultDelay

NextDelayTriple(delay) == delay * 3

(* line 65: delay * 2 *)
NextDelay(delay) == delay * BackoffFactor

(* throw new Error(...) in place of the failure caught *)
ThrownReplaced(rt, e) == 10

(* line 68: throw error *)
Thrown(rt, e) == e

(* lines 49-69: the awaited promise rejects with failure e *)
OnRejected(rt, e) ==
  IF ShouldRetry(RateLimited[e], rt.retries)
  THEN [rt EXCEPT !.pc = "sleeping", !.sleeps = Append(@, rt.delay)]
  ELSE [rt EXCEPT !.pc = "thrown", !.error = Thrown(rt, e)]

(* lines 64-65: the timer fires, generateWithRetry calls itself *)
OnTimeout(rt) ==
  InvokeOperation([rt EXCEPT !.retries = NextRetries(@), !.delay = NextDelay(@)])

(***************************************************************************)
(* State.                                                                  *)
(*   inv     an invocation of generateWithRetry made directly, with any    *)
(*           retries and delay                                             *)
(*   opLog   what the operation handed to that invocation did, call by     *)
(*           call: the failure it rejected with or the value it gave       *)
(*                                                                         *)
(*   activeCreation, isGenerating, history          App's useState         *)
(*   transcript, selectedFile, isListening          InputArea's useState   *)
(*   procs      the calls of handleGenerate and handleRefine, in the order *)
(*              they were made, each with its position and its locals      *)
(*   started    how many calls were made                                   *)
(*   nextId     the next value of crypto.randomUUID()                      *)
(*   completed  what the call that ended last did, until the next call is  *)
(*              made                                         (history)     *)
(*   call       a single call of the normalizer, the request builder or    *)
(*              fileToBase64, outside the App                              *)
(*   timer      the timeout of InputArea's auto-submit effect, when the    *)
(*              component is looked at by itself                           *)
(*   input      the rest of that InputArea: its attachments, the identity  *)
(*              of its onGenerate prop, and what it has called             *)
(***************************************************************************)
VARIABLES inv, opLog,
          activeCreation, isGenerating, history,
          transcript, selectedFile, isListening,
          procs, started, nextId, completed,
          call,
          timer, input

retryVars == <<inv, opLog>>

uiVars == <<transcript, selectedFile, isListening>>

appVars == <<activeCreation, isGenerating, history, procs, started, nextId, completed>>

(* the call of a function of the service boundary that is looked at by     *)
(* itself: its name, its arguments and what it returned                    *)
callVars == <<call>>

(* what the handlers of App and InputArea leave alone *)
(* the InputArea looked at by itself *)
areaVars == <<timer, input>>

restVars == <<retryVars, callVars, areaVars>>

vars == <<retryVars, uiVars, appVars, callVars, areaVars>>

(***************************************************************************)
(* One call of handleGenerate or handleRefine.                             *)
(*   pc          "unused" | "fileRead" | "remote" | "done"                 *)
(*   kind        "generate" | "refine"                                     *)
(*   rt          the invocation of generateWithRetry made by bringToLife   *)
(*               or refineCode                                             *)
(*   file        handleGenerate's argument                                 *)
(*   base        the activeCreation handleRefine closed over               *)
(*   preActive, preHistory  activeCreation and history when the call was   *)
(*               made                                          (history)   *)
(*   alone       nothing but this call has changed activeCreation or       *)
(*               history since it was made                     (history)   *)
(*   reset       handleReset has run since the call was made   (history)   *)
(***************************************************************************)
IdleInvocation == [NewInvocation(DefaultRetries, DefaultDelay) EXCEPT !.pc = "idle"]

UnusedProc ==
  [pc |-> "unused", kind |-> "generate", rt |-> IdleInvocation,
   file |-> NoFile, base |-> NoCreation,
   preActive |-> NoCreation, preHistory |-> <<>>, alone |-> TRUE,
   reset |-> FALSE]

DoneProc(kind) == [UnusedProc EXCEPT !.pc = "done", !.kind = kind]

(* what a call did: how it ended ("created", "nothing" when bringToLife     *)
(* returned an empty text, "failed"), after how many calls of the remote   *)
(* operation, the failure the last promise rejected with, the failure the  *)
(* catch block of the handler received, the alerts shown, the text         *)
(* returned by bringToLife or refineCode                                   *)
NothingCompleted ==
  [proc |-> 0, kind |-> "none", outcome |-> "none", attempts |-> 0,
   raised |-> NoError, received |-> NoError, alerts |-> <<>>, returned |-> <<>>]

Transcripts == {<<>>, <<" ">>, <<"h", "i">>}

RefinePrompts == {<<" ">>, <<"r">>}

(* the responses and the failures the remote call gives to the App: an     *)
(* empty text, a fenced document, a fence alone; a 429, a 503, a 500 and a *)
(* quota message                                                           *)
AppRespIds == {1, 3, 4}

AppErrIds == {1, 2, 3, 5}

(* the file the user picks in the App: the PNG picture *)
AppFileIds == {1}

InitUi ==
  /\ transcript = <<>>
  /\ selectedFile = NoFile
  /\ isListening = FALSE

(* the state after mount; saved is what initHistory found in localStorage *)
InitCalls(saved, calls) ==
  /\ activeCreation = NoCreation
  /\ isGenerating = FALSE
  /\ history = saved
  /\ procs = [p \in 1..calls |-> UnusedProc]
  /\ started = 0
  /\ nextId = FirstFreshId
  /\ completed = NothingCompleted

InitApp(saved) == InitCalls(saved, MaxRequests)

(* no call of a boundary function has been made *)
NoCall == [fn |-> "none", pc |-> "none", args |-> <<>>, ret |-> <<>>]

(* a boundary function has been called with args; it has returned ret *)
Called(fn, args) == [fn |-> fn, pc |-> "called", args |-> args, ret |-> <<>>]

Returned(c, ret) == [c EXCEPT !.pc = "returned", !.ret = ret]

(* no timeout is pending *)
NoTimer == [pending |-> FALSE, transcript |-> <<>>, files |-> <<>>, remaining |-> 0]

(* the InputArea after mount.                                              *)
(*   version     "files": the InputArea with assetFiles; "file": the one   *)
(*               with selectedFile, kept as a list of at most one file     *)
(*   files       assetFiles / selectedFile                                 *)
(*   onGenerate  the identity of the onGenerate prop: App makes a new      *)
(*               function on every render                                  *)
(*   quiet       how long ago the transcript, the attachments, isListening *)
(*               or isGenerating changed last, up to 800 ms  (history)     *)
(*   fired       how many times the timeout has run its callback           *)
(*                                                              (history)  *)
(*   last        the last call of onGenerate: who made it, with what       *)
(*                                                              (history)  *)
MountedArea(version) ==
  [version |-> version, files |-> <<>>, onGenerate |-> 0, quiet |-> 0, fired |-> 0,
   last |-> [by |-> "none", prompt |-> <<>>, files |-> <<>>]]

(* the InputArea is not looked at by itself *)
NoArea == timer = NoTimer /\ input = MountedArea("none")

Ok(v) == [ok |-> TRUE, id |-> v]
Err(e) == [ok |-> FALSE, id |-> e]

InitRetry ==
  /\ \E r \in 0..MaxRetries : \E d \in InitialDelays : inv = NewInvocation(r, d)
  /\ opLog = <<>>
  /\ InitUi
  /\ InitApp(<<>>)
  /\ call = NoCall
  /\ NoArea

(* generateWithRetry is entered and calls the operation *)
CallOperation ==
  /\ inv.pc = "call"
  /\ inv' = InvokeOperation(inv)
  /\ UNCHANGED <<opLog, uiVars, appVars, callVars, areaVars>>

OperationFulfils(v) ==
  /\ inv.pc = "awaitOp"
  /\ inv' = OnFulfilled(inv, v)
  /\ opLog' = Append(opLog, Ok(v))
  /\ UNCHANGED <<uiVars, appVars, callVars, areaVars>>

OperationRejects(e) ==
  /\ inv.pc = "awaitOp"
  /\ inv' = OnRejected(inv, e)
  /\ opLog' = Append(opLog, Err(e))
  /\ UNCHANGED <<uiVars, appVars, callVars, areaVars>>

BackoffElapses ==
  /\ inv.pc = "sleeping"
  /\ inv' = OnTimeout(inv)
  /\ UNCHANGED <<opLog, uiVars, appVars, callVars, areaVars>>

NextRetry ==
  \/ CallOperation
  \/ \E v \in RespIds : OperationFulfils(v)
  \/ \E e \in ErrIds : OperationRejects(e)
  \/ BackoffElapses

SpecRetry == InitRetry /\ [][NextRetry]_vars

(***************************************************************************)
(* App: the handlers.  JavaScript runs each of them up to its next await   *)
(* without interruption, and the continuations of settled promises run     *)
(* before any other event, so one action covers a call from one await to   *)
(* the next, or to its end.                                                *)
(***************************************************************************)
InFlight(p) == procs[p].pc \in {"fileRead", "remote"}

(* the calls other than p that are in flight see a change that is not      *)
(* theirs                                                                  *)
Disturb(ps, p, changed) ==
  [q \in DOMAIN ps |->
     IF q # p /\ changed /\ ps[q].pc \in {"fileRead", "remote"}
     THEN [ps[q] EXCEPT !.alone = FALSE]
     ELSE ps[q]]

EnterRemoteHalfDelay(proc) ==
  [proc EXCEPT !.pc = "remote",
               !.rt = InvokeOperation(NewInvocation(DefaultRetries, DefaultDelay \div 2))]

(* bringToLife / refineCode, up to the await of generateWithRetry, which   *)
(* itself runs up to the await of operation()                              *)
EnterRemote(proc) ==
  [proc EXCEPT !.pc = "remote",
               !.rt = InvokeOperation(NewInvocation(DefaultRetries, DefaultDelay))]

(* handleGenerate, lines 95-108, up to the first await *)
HandleGenerate(promptText, file) ==
  /\ started < Len(procs)
  /\ LET p    == started + 1
         proc == [UnusedProc EXCEPT !.kind = "generate",
                                    !.file = file,
                                    !.preActive = activeCreation,
                                    !.preHistory = history]
     IN  procs' = [Disturb(procs, p, activeCreation # NoCreation) EXCEPT
                     ![p] = IF file # NoFile
                            THEN [proc EXCEPT !.pc = "fileRead"]
                            ELSE EnterRemote(proc)]
  /\ isGenerating' = TRUE
  /\ activeCreation' = NoCreation
  /\ started' = started + 1
  /\ completed' = NothingCompleted
  /\ UNCHANGED <<history, nextId>>

RefineSourceNone(active) == NoCreation

(* handleRefine, line 134: the creation whose html goes to refineCode *)
RefineSource(active) == active

(* handleRefine, lines 130-134, up to the await *)
HandleRefine(refinementPrompt) ==
  IF activeCreation = NoCreation
  THEN UNCHANGED appVars
  ELSE /\ started < Len(procs)
       /\ LET p    == started + 1
              proc == [UnusedProc EXCEPT !.kind = "refine",
                                         !.base = RefineSource(activeCreation),
                                         !.preActive = activeCreation,
                                         !.preHistory = history]
          IN  procs' = [procs EXCEPT ![p] = EnterRemote(proc)]
       /\ isGenerating' = TRUE
       /\ started' = started + 1
       /\ completed' = NothingCompleted
       /\ UNCHANGED <<activeCreation, history, nextId>>

(* what a call leaves behind when it ends *)
Completion(p, outcome, raised, received, alerts, returned) ==
  [proc |-> p, kind |-> procs[p].kind, outcome |-> outcome,
   attempts |-> procs[p].rt.attempts,
   raised |-> raised, received |-> received, alerts |-> alerts,
   returned |-> returned]

CatchSilently(error) == <<>>

(* handleGenerate 122-123, handleRefine 147-148: catch (error) *)
CatchBlock(error) == <<AlertFor[error]>>

(* bringToLife 107-110, refineCode 147-150: catch (error) { throw error } *)
Rethrow(error) == error

EndInFailureNoFinally(p, raised, thrown) ==
  /\ completed' = Completion(p, "failed", raised, thrown, CatchBlock(thrown), <<>>)
  /\ procs' = [procs EXCEPT ![p] = DoneProc(procs[p].kind)]
  /\ UNCHANGED <<activeCreation, isGenerating, history, started, nextId>>

(* a call ends in its catch block and then its finally block *)
EndInFailure(p, raised, thrown) ==
  /\ completed' = Completion(p, "failed", raised, thrown, CatchBlock(thrown), <<>>)
  /\ procs' = [procs EXCEPT ![p] = DoneProc(procs[p].kind)]
  /\ isGenerating' = FALSE
  /\ UNCHANGED <<activeCreation, history, started, nextId>>

(* handleGenerate 108-120 and 125: bringToLife returned html *)
EndGenerate(p, html) ==
  LET made == NewCreation(nextId, html,
                          IF procs[p].file # NoFile
                          THEN ImageUrls[procs[p].file]
                          ELSE <<>>)
  IN  IF html # <<>>
      THEN /\ activeCreation' = made
           /\ history' = <<made>> \o history
           /\ nextId' = nextId + 1
           /\ completed' = Completion(p, "created", NoError, NoError, <<>>, html)
           /\ procs' = [Disturb(procs, p, TRUE) EXCEPT ![p] = DoneProc("generate")]
           /\ isGenerating' = FALSE
           /\ UNCHANGED started
      ELSE /\ completed' = Completion(p, "nothing", NoError, NoError, <<>>, html)
           /\ procs' = [procs EXCEPT ![p] = DoneProc("generate")]
           /\ isGenerating' = FALSE
           /\ UNCHANGED <<activeCreation, history, nextId, started>>

(* handleRefine 134-145 and 150: refineCode returned updatedHtml *)
EndRefine(p, updatedHtml) ==
  LET made == RefinedCreation(nextId, procs[p].base, updatedHtml)
  IN  /\ activeCreation' = made
      /\ history' = <<made>> \o history
      /\ nextId' = nextId + 1
      /\ completed' = Completion(p, "created", NoError, NoError, <<>>, updatedHtml)
      /\ procs' = [Disturb(procs, p, TRUE) EXCEPT ![p] = DoneProc("refine")]
      /\ isGenerating' = FALSE
      /\ UNCHANGED started

(* fileToBase64 resolves: handleGenerate 103-108 goes on into bringToLife *)
FileReadDone(p) ==
  /\ procs[p].pc = "fileRead"
  /\ procs' = [procs EXCEPT ![p] = EnterRemote(@)]
  /\ UNCHANGED <<activeCreation, isGenerating, history, started, nextId, completed>>
  /\ UNCHANGED <<restVars, uiVars>>

(* reader.onerror rejects fileToBase64 *)
FileReadFails(p) ==
  /\ procs[p].pc = "fileRead"
  /\ EndInFailure(p, FileReadError, FileReadError)
  /\ UNCHANGED <<restVars, uiVars>>

(* ai.models.generateContent resolves with response v *)
RemoteFulfils(p, v) ==
  /\ procs[p].pc = "remote"
  /\ procs[p].rt.pc = "awaitOp"
  /\ LET rt == OnFulfilled(procs[p].rt, v)
     IN  IF procs[p].kind = "generate"
         THEN EndGenerate(p, BringToLifeResults[rt.result])
         ELSE EndRefine(p, RefineCodeResult(rt.result, procs[p].base.html))
  /\ UNCHANGED <<restVars, uiVars>>

(* ai.models.generateContent rejects with failure e *)
RemoteRejects(p, e) ==
  /\ procs[p].pc = "remote"
  /\ procs[p].rt.pc = "awaitOp"
  /\ LET rt == OnRejected(procs[p].rt, e)
     IN  IF rt.pc = "thrown"
         THEN EndInFailure(p, e, Rethrow(rt.error))
         ELSE /\ procs' = [procs EXCEPT ![p].rt = rt]
              /\ UNCHANGED <<activeCreation, isGenerating, history, started, nextId,
                             completed>>
  /\ UNCHANGED <<restVars, uiVars>>

(* the backoff timer of a call fires *)
BackoffTimer(p) ==
  /\ procs[p].pc = "remote"
  /\ procs[p].rt.pc = "sleeping"
  /\ procs' = [procs EXCEPT ![p].rt = OnTimeout(@)]
  /\ UNCHANGED <<activeCreation, isGenerating, history, started, nextId, completed>>
  /\ UNCHANGED <<restVars, uiVars>>

(* the calls in flight have seen a reset *)
MarkReset(ps) ==
  [q \in DOMAIN ps |->
     IF ps[q].pc \in {"fileRead", "remote"} THEN [ps[q] EXCEPT !.reset = TRUE] ELSE ps[q]]

(* handleReset, lines 154-157: the Close Preview button *)
HandleReset ==
  /\ activeCreation' = NoCreation
  /\ isGenerating' = FALSE
  /\ procs' = MarkReset(Disturb(procs, 0, activeCreation # NoCreation))
  /\ UNCHANGED <<history, started, nextId, completed>>
  /\ UNCHANGED <<restVars, uiVars>>

(* a history button, lines 207-208: one of the first three entries *)
SelectHistory(i) ==
  /\ i <= Len(history)
  /\ activeCreation' = history[i]
  /\ procs' = Disturb(procs, 0, activeCreation # history[i])
  /\ UNCHANGED <<isGenerating, history, started, nextId, completed>>
  /\ UNCHANGED <<restVars, uiVars>>

HistoryShown == 3

(***************************************************************************)
(* InputArea (the single-file version App uses).  The main content is only *)
(* faded out and made deaf to the pointer while a creation is shown, so    *)
(* the keyboard still reaches its controls; only the disabled attributes   *)
(* switch a control off.                                                   *)
(***************************************************************************)
AppDisabled == activeCreation # NoCreation \/ isGenerating

(* the text input's onChange *)
TypeTranscript(t) ==
  /\ t # transcript
  /\ transcript' = t
  /\ UNCHANGED <<selectedFile, isListening>>
  /\ UNCHANGED <<restVars, appVars>>

(* toggleListening while not listening, and recognition.onstart *)
StartListening ==
  /\ ~(isGenerating \/ AppDisabled)
  /\ ~isListening
  /\ transcript' = <<>>
  /\ isListening' = TRUE
  /\ UNCHANGED selectedFile
  /\ UNCHANGED <<restVars, appVars>>

(* recognition.onresult *)
SpeechResult(t) ==
  /\ isListening
  /\ transcript' = t
  /\ UNCHANGED <<selectedFile, isListening>>
  /\ UNCHANGED <<restVars, appVars>>

(* recognition.onend / onerror, after stop() or by itself *)
SpeechEnd ==
  /\ isListening
  /\ isListening' = FALSE
  /\ UNCHANGED <<transcript, selectedFile>>
  /\ UNCHANGED <<restVars, appVars>>

(* handleFileChange *)
SelectFile(f) ==
  /\ ~isGenerating
  /\ selectedFile' = f
  /\ UNCHANGED <<transcript, isListening>>
  /\ UNCHANGED <<restVars, appVars>>

(* the remove button of the selected file *)
ClearFile ==
  /\ selectedFile # NoFile
  /\ selectedFile' = NoFile
  /\ UNCHANGED <<transcript, isListening>>
  /\ UNCHANGED <<restVars, appVars>>

(* handleManualSubmit, lines 307-314 *)
HandleManualSubmit ==
  /\ ~TrimIsEmpty(transcript) \/ selectedFile # NoFile
  /\ HandleGenerate(transcript, selectedFile)
  /\ transcript' = <<>>
  /\ selectedFile' = NoFile
  /\ UNCHANGED isListening
  /\ UNCHANGED restVars

(* the timer of the auto-submit effect, lines 324-335; the effect keeps a  *)
(* timer pending exactly while its condition holds                         *)
AutoSubmit ==
  /\ ~isListening /\ transcript # <<>> /\ ~isGenerating
  /\ HandleGenerate(transcript, selectedFile)
  /\ transcript' = <<>>
  /\ selectedFile' = NoFile
  /\ UNCHANGED isListening
  /\ UNCHANGED restVars

(***************************************************************************)
(* LivePreview: the refine form is rendered while not loading and the      *)
(* creation has html.                                                      *)
(***************************************************************************)
RefineFormShown == ~isGenerating /\ activeCreation.html # <<>>

(* handleRefineSubmit, lines 287-293, with refinePrompt the text the user  *)
(* has typed into the form; the text is cleared by the handler, and it is  *)
(* read by nothing else, so it is an input of the action                   *)
HandleRefineSubmit(refinePrompt) ==
  /\ RefineFormShown
  /\ ~TrimIsEmpty(refinePrompt)
  /\ HandleRefine(refinePrompt)
  /\ UNCHANGED uiVars
  /\ UNCHANGED restVars

Procs == DOMAIN procs

Next ==
  \/ \E t \in Transcripts : TypeTranscript(t)
  \/ StartListening
  \/ \E t \in Transcripts : SpeechResult(t)
  \/ SpeechEnd
  \/ \E f \in AppFileIds : SelectFile(f)
  \/ ClearFile
  \/ HandleManualSubmit
  \/ AutoSubmit
  \/ \E t \in RefinePrompts : HandleRefineSubmit(t)
  \/ HandleReset
  \/ \E i \in 1..HistoryShown : SelectHistory(i)
  \/ \E p \in Procs : FileReadDone(p)
  \/ \E p \in Procs : FileReadFails(p)
  \/ \E p \in Procs : \E v \in AppRespIds : RemoteFulfils(p, v)
  \/ \E p \in Procs : \E e \in AppErrIds : RemoteRejects(p, e)
  \/ \E p \in Procs : BackoffTimer(p)

Init ==
  /\ inv = [NewInvocation(DefaultRetries, DefaultDelay) EXCEPT !.pc = "idle"]
  /\ opLog = <<>>
  /\ InitUi
  /\ \E saved \in {<<>>, <<SavedCreation>>} : InitApp(saved)
  /\ call = NoCall
  /\ NoArea

Spec == Init /\ [][Next]_vars

(* the App when the user can make MaxOverlap requests, so that one request *)
(* can be made while another is under way                                  *)
InitOverlap ==
  /\ inv = IdleInvocation
  /\ opLog = <<>>
  /\ InitUi
  /\ \E saved \in {<<>>, <<SavedCreation>>} : InitCalls(saved, MaxOverlap)
  /\ call = NoCall
  /\ NoArea

SpecOverlap == InitOverlap /\ [][Next]_vars

(* a request in flight goes on: the FileReader ends, with the content or   *)
(* with an error; the remote call ends, with a response or with a failure; *)
(* the backoff timer fires.  What the user does is left free.              *)
FileReadEnds(p) == FileReadDone(p) \/ FileReadFails(p)

RemoteEnds(p) ==
  \/ \E v \in AppRespIds : RemoteFulfils(p, v)
  \/ \E e \in AppErrIds : RemoteRejects(p, e)

(***************************************************************************)
(* The handlers of App by themselves: onGenerate is called as InputArea    *)
(* calls it from handleManualSubmit, with a text that is not blank or with *)
(* a file, at any time (the text input is never disabled); the rest is as  *)
(* above.  The state of InputArea stays as it is after mount.              *)
(***************************************************************************)
GeneratePrompts == {<<>>, <<"h", "i">>}

OnGenerate(promptText, file) ==
  /\ ~TrimIsEmpty(promptText) \/ file # NoFile
  /\ HandleGenerate(promptText, file)
  /\ UNCHANGED uiVars
  /\ UNCHANGED restVars

NextRequests ==
  \/ \E t \in GeneratePrompts : \E f \in {NoFile} \cup AppFileIds : OnGenerate(t, f)
  \/ \E t \in RefinePrompts : HandleRefineSubmit(t)
  \/ HandleReset
  \/ \E i \in 1..HistoryShown : SelectHistory(i)
  \/ \E p \in Procs : FileReadDone(p)
  \/ \E p \in Procs : FileReadFails(p)
  \/ \E p \in Procs : \E v \in AppRespIds : RemoteFulfils(p, v)
  \/ \E p \in Procs : \E e \in AppErrIds : RemoteRejects(p, e)
  \/ \E p \in Procs : BackoffTimer(p)

SpecRequests == Init /\ [][NextRequests]_vars

FairSpecRequests ==
  /\ SpecRequests
  /\ \A p \in 1..MaxRequests :
       /\ WF_vars(FileReadEnds(p))
       /\ WF_vars(RemoteEnds(p))
       /\ WF_vars(BackoffTimer(p))

(***************************************************************************)
(* The functions of the service boundary, called by themselves: the output *)
(* normalizer, the request builder and fileToBase64.  A raw response is a  *)
(* run of at most MaxPieces pieces.                                        *)
(***************************************************************************)
MaxPieces == 6

Paragraph == <<"<", "p", ">">>

Pieces == {Fence, HtmlTag, <<"\n">>, Paragraph}

RECURSIVE Flatten(_)
Flatten(ps) == IF ps = <<>> THEN <<>> ELSE Head(ps) \o Flatten(Tail(ps))

RawTexts == UNION {{Flatten(f) : f \in [1..n -> Pieces]} : n \in 0..MaxPieces}

(***************************************************************************)
(* The request builder.  A text of a request is a sequence of pieces: a    *)
(* piece is a character of a value put into the template, or a literal of  *)
(* the template as a whole.  The version of part_001 takes assets (name,   *)
(* mimeType, data), the version of part_000 takes image parts.             *)
(***************************************************************************)
MaxAssets == 2

AssetTable == <<
  [name     |-> <<"M", "y", " ", "P", "h", "o", "t", "o", ".", "p", "n", "g">>,
   mimeType |-> <<"i", "m", "a", "g", "e", "/", "p", "n", "g">>,
   data     |-> <<"Q", "U", "J", "D">>],
  [name     |-> <<"v", "-", "1", "_", "(", "Z", ")", ".", "g", "i", "f">>,
   mimeType |-> <<"i", "m", "a", "g", "e", "/", "g", "i", "f">>,
   data     |-> <<"R", "0", "l", "G">>],
  [name     |-> <<"M", "y", "_", "P", "h", "o", "t", "o", ".", "p", "n", "g">>,
   mimeType |-> <<"i", "m", "a", "g", "e", "/", "p", "n", "g">>,
   data     |-> <<"W", "F", "l", "a">>]
>>

AssetLists ==
  UNION {[1..n -> {AssetTable[i] : i \in 1..Len(AssetTable)}] : n \in 0..MaxAssets}

(* an asset as the image part handleGenerate makes of a file, line 104 *)
ImagePart(asset) == [data |-> asset.data, mimeType |-> asset.mimeType]

PromptTexts == {<<>>, <<" ">>, <<"h", "i">>}

(* [a-zA-Z0-9.-] *)
PathChars ==
  {LowerChars[i] : i \in 1..26} \cup {UpperChars[i] : i \in 1..26}
    \cup {DigitChars[i] : i \in 1..10} \cup {".", "-"}

SanitizeNameSpacesOnly(name) ==
  [i \in 1..Len(name) |-> IF IsSpace(name[i]) THEN "_" ELSE name[i]]

(* asset.name.replace(/[^a-zA-Z0-9.-]/g, '_') *)
SanitizeName(name) ==
  [i \in 1..Len(name) |-> IF name[i] \in PathChars THEN name[i] ELSE "_"]

(* part_001 lines 87 and 134 *)
VirtualPath(asset) == <<"/assets/uploads/">> \o SanitizeName(asset.name)

(* file.name.replace(/\s+/g, '_') *)
RECURSIVE ReplaceSpaceRuns(_)
ReplaceSpaceRuns(name) ==
  IF name = <<>> THEN <<>>
  ELSE IF IsSpace(Head(name)) THEN <<"_">> \o ReplaceSpaceRuns(SkipSpace(name))
  ELSE <<Head(name)>> \o ReplaceSpaceRuns(Tail(name))

(* the path InputArea shows under the name of an attached file, part_002   *)
(* lines 207-209                                                           *)
DisplayedPath(name) == <<"/assets/uploads/">> \o ReplaceSpaceRuns(name)

(* the four lines both builders write for an asset: part_001 90-93, 136-139 *)
AssetLines(asset) ==
  <<"Filename: ">> \o asset.name \o <<"\n">>
    \o <<"Virtual Path: ">> \o VirtualPath(asset) \o <<"\n">>
    \o <<"MIME: ">> \o asset.mimeType \o <<"\n">>
    \o <<"DATA (Base64): data:">> \o asset.mimeType \o <<";base64,">>
    \o asset.data \o <<"\n">>

AssetBlockFromZero(asset, index) ==
  <<"\n--- ASSET ">> \o NumStr(index) \o <<" ---\n">>
    \o AssetLines(asset)
    \o <<"INSTRUCTION: Wherever the code would logically use \"">>
    \o VirtualPath(asset)
    \o <<"\" (or if the user asked for this file), insert the DATA string above.\n">>

(* bringToLife, part_001 lines 89-94, for assets[index] (index from 0) *)
AssetBlock(asset, index) ==
  <<"\n--- ASSET ">> \o NumStr(index + 1) \o <<" ---\n">>
    \o AssetLines(asset)
    \o <<"INSTRUCTION: Wherever the code would logically use \"">>
    \o VirtualPath(asset)
    \o <<"\" (or if the user asked for this file), insert the DATA string above.\n">>

(* refineCode, part_001 lines 135-140 *)
NewAssetBlock(asset, index) ==
  <<"\n--- NEW ASSET ">> \o NumStr(index + 1) \o <<" ---\n">>
    \o AssetLines(asset)
    \o <<"INSTRUCTION: Integrate this new asset into the code. Use the Base64 data for 'src' attributes.\n">>

(* assets.forEach((asset, index) => ...) *)
RECURSIVE ForEachAsset(_, _, _)
ForEachAsset(assets, index, refine) ==
  IF index >= Len(assets) THEN <<>>
  ELSE (IF refine THEN NewAssetBlock(assets[index + 1], index)
                  ELSE AssetBlock(assets[index + 1], index))
         \o ForEachAsset(assets, index + 1, refine)

AssetsHeader ==
  <<"\n\n[ATTACHED ASSETS DETECTED]\n",
    "The user has uploaded the following files. You must use them in the generated code.\n",
    "IMPORTANT: To make them work, you must use the BASE64 data provided below as the 'src'.\n">>

TerminalInstruction == "\nGenerate the fully functional HTML application now."

ConstructedPromptOpenEnd(prompt, assets) ==
  <<"Voice Command: \"">>
    \o TextOr(prompt, <<"Build a web interface based on these assets.">>)
    \o <<"\".">>
    \o <<TerminalInstruction>>
    \o (IF Len(assets) > 0 THEN AssetsHeader \o ForEachAsset(assets, 0, FALSE) ELSE <<>>)

(* bringToLife of part_001, lines 78-98: constructedPrompt *)
ConstructedPrompt(prompt, assets) ==
  <<"Voice Command: \"">>
    \o TextOr(prompt, <<"Build a web interface based on these assets.">>)
    \o <<"\".">>
    \o (IF Len(assets) > 0 THEN AssetsHeader \o ForEachAsset(assets, 0, FALSE) ELSE <<>>)
    \o <<TerminalInstruction>>

(* bringToLife of part_000, lines 78-80: finalPrompt *)
FinalPrompt(prompt, images) ==
  IF Len(images) > 0
  THEN <<"Context: User uploaded an image. Voice Command: \"">>
         \o TextOr(prompt, <<"Analyze this image and build a web interface based on it.">>)
         \o <<"\". Generate a web interface response.">>
  ELSE <<"Voice Command: \"">> \o prompt
         \o <<"\". Generate the web interface for this request.">>

NewAssetsHeader ==
  <<"\n\n[NEW ASSETS PROVIDED]\n",
    "The user has uploaded new files to be added to the project:\n">>

(* refineCode of part_001, lines 129-142: assetContext *)
AssetContext(newAssets) ==
  IF Len(newAssets) > 0
  THEN NewAssetsHeader \o ForEachAsset(newAssets, 0, TRUE)
  ELSE <<>>

(* refineCode of part_001, lines 144-159: prompt *)
RefinePrompt(currentHtml, refinementPrompt, newAssets) ==
  <<"\n    CURRENT CODE:\n    ">> \o currentHtml
    \o <<"\n\n    USER REQUEST FOR IMPROVEMENT:\n    \"">> \o refinementPrompt
    \o <<"\"\n\n    ">> \o AssetContext(newAssets)
    \o <<"\n\n    INSTRUCTIONS:\n    1. Update the CURRENT CODE to match the USER REQUEST.\n    2. Maintain the same visual style and structure unless asked to change.\n    3. If new assets are provided, ensure they are implemented correctly using the Data URIs.\n    4. Return the FULL updated HTML file (do not return just snippets).\n    5. Ensure the code remains self-contained.\n  ">>

(* the requests InputArea can make: a prompt may be empty only when        *)
(* something is attached (part_002 lines 68 and 89)                        *)
RequestArgs ==
  {<<prompt, assets>> \in PromptTexts \X AssetLists : prompt # <<>> \/ assets # <<>>}

BuilderCalls ==
  {Called("bringToLifeAssets", a) : a \in RequestArgs}
    \cup {Called("bringToLifeImages",
                 <<a[1], [i \in 1..Len(a[2]) |-> ImagePart(a[2][i])]>>) :
            a \in RequestArgs}
    \cup {Called("refineCodeAssets", <<Paragraph, a[1], a[2]>>) :
            a \in {<<"r">>} \X AssetLists}

(* the parts of a request: the text part and the image parts after it *)
Parts(text, images) == [text |-> text, images |-> images]

(* bringToLife of part_001 up to the request, lines 75-100 *)
BringToLifeAssets ==
  /\ call.fn = "bringToLifeAssets" /\ call.pc = "called"
  /\ call' = Returned(call, Parts(ConstructedPrompt(call.args[1], call.args[2]), <<>>))
  /\ UNCHANGED <<retryVars, uiVars, appVars, areaVars>>

(* bringToLife of part_000 up to the request, lines 76-87 *)
BringToLifeImages ==
  /\ call.fn = "bringToLifeImages" /\ call.pc = "called"
  /\ call' = Returned(call, Parts(FinalPrompt(call.args[1], call.args[2]),
                                  call.args[2]))
  /\ UNCHANGED <<retryVars, uiVars, appVars, areaVars>>

(* refineCode of part_001 up to the request, lines 129-166 *)
RefineCodeAssets ==
  /\ call.fn = "refineCodeAssets" /\ call.pc = "called"
  /\ call' = Returned(call, Parts(RefinePrompt(call.args[1], call.args[2], call.args[3]), <<>>))
  /\ UNCHANGED <<retryVars, uiVars, appVars, areaVars>>

FileCalls == {Called("fileToBase64", <<f>>) : f \in FileIds}

(* handleGenerate, lines 102-104: the file is read and the entry for       *)
(* bringToLife is made of the result                                       *)
ReadFile ==
  /\ call.fn = "fileToBase64" /\ call.pc = "called"
  /\ call' = Returned(call, <<[inlineData |-> FileToBase64(call.args[1])]>>)
  /\ UNCHANGED <<retryVars, uiVars, appVars, areaVars>>

NormalizerCalls == {Called("normalize", <<text>>) : text \in RawTexts}

InitBoundary ==
  /\ inv = IdleInvocation
  /\ opLog = <<>>
  /\ InitUi
  /\ InitApp(<<>>)
  /\ call \in NormalizerCalls \cup BuilderCalls \cup FileCalls
  /\ NoArea

(* lines 103-104 of bringToLife, 144-145 of refineCode: the three replace  *)
(* calls on the raw response text                                          *)
Normalizer ==
  /\ call.fn = "normalize" /\ call.pc = "called"
  /\ call' = Returned(call, Normalize(call.args[1]))
  /\ UNCHANGED <<retryVars, uiVars, appVars, areaVars>>

(* the normalizer on a text it has returned: refineCode does this with the *)
(* html of the creation when the response has no text (line 144)           *)
NormalizerAgain ==
  /\ call.fn = "normalize" /\ call.pc = "returned"
  /\ call' = Returned(Called("normalizeAgain", <<call.ret>>),
                      Normalize(TextOr(<<>>, call.ret)))
  /\ UNCHANGED <<retryVars, uiVars, appVars, areaVars>>

NextBoundary ==
  \/ Normalizer
  \/ NormalizerAgain
  \/ BringToLifeAssets
  \/ BringToLifeImages
  \/ RefineCodeAssets
  \/ ReadFile

SpecBoundary == InitBoundary /\ [][NextBoundary]_vars

(***************************************************************************)
(* InputArea by itself, with its timeout.  Its parent is reduced to what   *)
(* it gives the component: the isGenerating prop, set by the call of       *)
(* onGenerate (handleGenerate, line 95) and cleared when the request ends, *)
(* and the onGenerate prop, a new function on every render of App.  Time   *)
(* passes in steps of TickMs.  An action is a handler and the render and   *)
(* the effect run that follow it.                                          *)
(***************************************************************************)
AutoSubmitDelay == 800

TickMs == 400

MaxAttached == 2

MaxFired == 2

AreaVersions == {"files", "file"}

AreaFileIds == {1, 2}

EffectDepsNoFiles == <<isListening, transcript, isGenerating, input.onGenerate>>

(* the dependency list of the effect, part_002 lines 97 and 335 *)
EffectDeps == <<isListening, transcript, isGenerating, input.onGenerate, input.files>>

(* part_002 lines 89 and 326 *)
EffectCondition == ~isListening /\ transcript # <<>> /\ ~isGenerating

(* the effect after a render, with current the timeout left by the handler *)
(* that ran: when a dependency has changed, the cleanup of the last run    *)
(* clears its timeout and the body runs again, lines 88-97 / 324-335       *)
RunEffect(current) ==
  timer' = IF EffectDeps' = EffectDeps THEN current
           ELSE IF EffectCondition'
                THEN [pending |-> TRUE, transcript |-> transcript',
                      files |-> input'.files, remaining |-> AutoSubmitDelay]
                ELSE NoTimer

(* what the handlers of InputArea do not touch *)
AreaRest ==
  UNCHANGED <<retryVars, callVars, selectedFile,
              activeCreation, history, procs, started, nextId, completed>>

(* a new function is passed as onGenerate *)
NewOnGenerate(id) == 1 - id

InitInput ==
  /\ inv = IdleInvocation
  /\ opLog = <<>>
  /\ InitUi
  /\ InitApp(<<>>)
  /\ call = NoCall
  /\ timer = NoTimer
  /\ \E version \in AreaVersions : input = MountedArea(version)

(* the text input's onChange, lines 151 / 389 *)
AreaType(t) ==
  /\ t # transcript
  /\ transcript' = t
  /\ input' = [input EXCEPT !.quiet = 0]
  /\ UNCHANGED <<isListening, isGenerating>>
  /\ AreaRest
  /\ RunEffect(timer)

(* toggleListening while not listening, lines 56-63 / 298-305, and         *)
(* recognition.onstart                                                     *)
AreaStartListening ==
  /\ ~(isGenerating \/ AppDisabled)
  /\ ~isListening
  /\ transcript' = <<>>
  /\ isListening' = TRUE
  /\ input' = [input EXCEPT !.quiet = 0]
  /\ UNCHANGED isGenerating
  /\ AreaRest
  /\ RunEffect(timer)

(* recognition.onresult *)
AreaSpeechResult(t) ==
  /\ isListening
  /\ transcript' = t
  /\ input' = [input EXCEPT !.quiet = IF t # transcript THEN 0 ELSE @]
  /\ UNCHANGED <<isListening, isGenerating>>
  /\ AreaRest
  /\ RunEffect(timer)

(* recognition.onend / onerror *)
AreaSpeechEnd ==
  /\ isListening
  /\ isListening' = FALSE
  /\ input' = [input EXCEPT !.quiet = 0]
  /\ UNCHANGED <<transcript, isGenerating>>
  /\ AreaRest
  /\ RunEffect(timer)

(* handleAssetUpload, lines 75-81, which appends; handleFileChange, lines  *)
(* 316-321, which replaces                                                 *)
AreaUpload(f) ==
  /\ ~isGenerating
  /\ input.version = "files" => Len(input.files) < MaxAttached
  /\ input.version = "file" => input.files # <<f>>
  /\ input' = [input EXCEPT !.files = IF input.version = "files"
                                      THEN Append(@, f) ELSE <<f>>,
                            !.quiet = 0]
  /\ UNCHANGED <<transcript, isListening, isGenerating>>
  /\ AreaRest
  /\ RunEffect(timer)

(* prev.filter((_, i) => i !== index) *)
RemoveAt(files, index) ==
  [i \in 1..(Len(files) - 1) |-> IF i < index THEN files[i] ELSE files[i + 1]]

(* removeAsset, lines 83-85; the remove button of the file, lines 426-428 *)
AreaRemove(index) ==
  /\ index \in 1..Len(input.files)
  /\ input' = [input EXCEPT !.files = RemoveAt(@, index), !.quiet = 0]
  /\ UNCHANGED <<transcript, isListening, isGenerating>>
  /\ AreaRest
  /\ RunEffect(timer)

(* onGenerate(prompt, files) and the two setters after it, lines 69-71,    *)
(* 91-93, 310-312, 328-330; handleGenerate sets isGenerating at once       *)
CallOnGenerate(by, prompt, files) ==
  /\ isGenerating' = TRUE
  /\ transcript' = <<>>
  /\ input' = [input EXCEPT !.files = <<>>,
                            !.onGenerate = NewOnGenerate(@),
                            !.quiet = 0,
                            !.fired = IF by = "timer" THEN @ + 1 ELSE @,
                            !.last = [by |-> by, prompt |-> prompt, files |-> files]]
  /\ UNCHANGED isListening
  /\ AreaRest

(* handleManualSubmit, lines 66-73 / 307-314 *)
AreaManualSubmit ==
  /\ ~TrimIsEmpty(transcript) \/ input.files # <<>>
  /\ CallOnGenerate("manual", transcript, input.files)
  /\ RunEffect(timer)

(* the timeout of the effect runs its callback, lines 90-94 / 327-331 *)
AreaTimerFires ==
  /\ timer.pending
  /\ timer.remaining = 0
  /\ input.fired < MaxFired
  /\ CallOnGenerate("timer", timer.transcript, timer.files)
  /\ RunEffect(NoTimer)

(* TickMs pass *)
AreaTick ==
  /\ (timer.pending /\ timer.remaining > 0) \/ input.quiet < AutoSubmitDelay
  /\ timer' = IF timer.pending /\ timer.remaining > 0
              THEN [timer EXCEPT !.remaining = @ - TickMs]
              ELSE timer
  /\ input' = [input EXCEPT !.quiet = IF @ < AutoSubmitDelay THEN @ + TickMs ELSE @]
  /\ UNCHANGED <<transcript, isListening, isGenerating>>
  /\ AreaRest

(* the request ends: the finally block of handleGenerate clears            *)
(* isGenerating, and App renders                                           *)
ParentFinishes ==
  /\ isGenerating
  /\ isGenerating' = FALSE
  /\ input' = [input EXCEPT !.onGenerate = NewOnGenerate(@), !.quiet = 0]
  /\ UNCHANGED <<transcript, isListening>>
  /\ AreaRest
  /\ RunEffect(timer)

(* App renders for a reason of its own *)
ParentRenders ==
  /\ input' = [input EXCEPT !.onGenerate = NewOnGenerate(@)]
  /\ UNCHANGED <<transcript, isListening, isGenerating>>
  /\ AreaRest
  /\ RunEffect(timer)

NextInput ==
  \/ \E t \in Transcripts : AreaType(t)
  \/ AreaStartListening
  \/ \E t \in Transcripts : AreaSpeechResult(t)
  \/ AreaSpeechEnd
  \/ \E f \in AreaFileIds : AreaUpload(f)
  \/ \E index \in 1..MaxAttached : AreaRemove(index)
  \/ AreaManualSubmit
  \/ AreaTimerFires
  \/ AreaTick
  \/ ParentFinishes
  \/ ParentRenders

SpecInput == InitInput /\ [][NextInput]_vars

(* every call of the operation completes and every timer fires *)
FairSpecRetry ==
  /\ SpecRetry
  /\ WF_vars(CallOperation)
  /\ WF_vars(\E v \in RespIds : OperationFulfils(v))
  /\ WF_vars(\E e \in ErrIds : OperationRejects(e))
  /\ WF_vars(BackoffElapses)

(***************************************************************************)
(* Helpers of the properties.                                              *)
(***************************************************************************)
RECURSIVE Pow2(_)
Pow2(n) == IF n = 0 THEN 1 ELSE 2 * Pow2(n - 1)

RECURSIVE SumSeq(_)
SumSeq(q) == IF q = <<>> THEN 0 ELSE Head(q) + SumSeq(Tail(q))

IsDefault == inv.initRetries = DefaultRetries /\ inv.initDelay = DefaultDelay

(* the k-th call of the operation failed and the code took the failure for *)
(* a rate limit                                                            *)
TransientAt(k) == ~opLog[k].ok /\ RateLimited[opLog[k].id]

FatalAt(k) == ~opLog[k].ok /\ ~RateLimited[opLog[k].id]

(* the k-th call of the operation was followed by a suspension *)
Suspended(k) == k <= Len(inv.sleeps)

(***************************************************************************)
(* C1. One invocation of generateWithRetry with initial budget r calls the *)
(* operation at most r + 1 times, whatever the operation does.             *)
(***************************************************************************)
C1_AttemptBound ==
  /\ inv.attempts <= inv.initRetries + 1
  /\ Len(opLog) <= inv.initRetries + 1

C1_Witness ==
  /\ inv.pc = "thrown"
  /\ inv.initRetries = DefaultRetries
  /\ inv.attempts = DefaultRetries + 1

(***************************************************************************)
(* C2. Every failure taken for transient while retries > 0 causes exactly  *)
(* one suspension and then exactly one more attempt; the k-th suspension   *)
(* lasts initialDelay * 2^(k-1); retrying stops at the first success, the  *)
(* first other failure, or when the budget is 0.  Two failures with status *)
(* 429 and then a success give the success value after suspensions of      *)
(* 2000 and 4000 ms.                                                       *)
(***************************************************************************)
C2_RetryOncePerTransient ==
  /\ \A k \in 1..Len(inv.sleeps) : inv.sleeps[k] = inv.initDelay * Pow2(k - 1)
  /\ Len(inv.sleeps) =
       Cardinality({k \in 1..Len(opLog) : TransientAt(k) /\ k <= inv.initRetries})
  /\ inv.attempts = CASE inv.pc = "call" -> 0
                      [] inv.pc = "sleeping" -> Len(inv.sleeps)
                      [] OTHER -> Len(inv.sleeps) + 1
  /\ Len(opLog) = IF inv.pc = "awaitOp" THEN inv.attempts - 1 ELSE inv.attempts
  /\ \A k \in 1..(Len(opLog) - 1) : TransientAt(k) /\ k <= inv.initRetries
  /\ inv.pc \in RetryDone <=>
       /\ opLog # <<>>
       /\ \/ opLog[Len(opLog)].ok
          \/ FatalAt(Len(opLog))
          \/ Len(opLog) > inv.initRetries
  /\ inv.pc = "returned" <=> (opLog # <<>> /\ opLog[Len(opLog)].ok)
  /\ (IsDefault /\ Len(opLog) = 3 /\ opLog[1] = Err(1) /\ opLog[2] = Err(1) /\ opLog[3].ok)
       => /\ inv.pc = "returned"
          /\ inv.result = opLog[3].id
          /\ inv.sleeps = <<2000, 4000>>

C2_Witness ==
  /\ IsDefault
  /\ opLog = <<Err(1), Err(1), Ok(2)>>
  /\ inv.pc = "returned"
  /\ inv.sleeps = <<2000, 4000>>

(***************************************************************************)
(* C3. A failure that is not taken for transient is propagated at once,    *)
(* whatever budget remains: it is the last call of the operation, it is    *)
(* the failure thrown, and no suspension follows it.                       *)
(***************************************************************************)
C3_FatalPropagatesAtOnce ==
  \A k \in 1..Len(opLog) :
    FatalAt(k) =>
      /\ k = Len(opLog)
      /\ inv.pc = "thrown"
      /\ inv.error = opLog[k].id
      /\ inv.attempts = k
      /\ Len(inv.sleeps) = k - 1

C3_Witness ==
  /\ inv.pc = "thrown"
  /\ opLog = <<Err(3)>>
  /\ inv.retries = DefaultRetries

(***************************************************************************)
(* C4. With retries = 0 any failure, transient or not, is propagated after *)
(* exactly one attempt and without suspension.                             *)
(***************************************************************************)
C4_ZeroBudget ==
  (inv.initRetries = 0 /\ opLog # <<>> /\ ~opLog[1].ok) =>
     /\ inv.pc = "thrown"
     /\ inv.error = opLog[1].id
     /\ inv.attempts = 1
     /\ Len(opLog) = 1
     /\ inv.sleeps = <<>>

C4_Witness ==
  /\ inv.initRetries = 0
  /\ inv.pc = "thrown"
  /\ TransientAt(1)

(***************************************************************************)
(* C5. With the default configuration, and every call of the operation     *)
(* completing, an invocation terminates, after at most 4 attempts and      *)
(* suspensions of at most 2000 + 4000 + 8000 = 14000 ms in total.          *)
(***************************************************************************)
C5_Terminates ==
  /\ [](IsDefault => inv.attempts <= 4 /\ SumSeq(inv.sleeps) <= 14000)
  /\ IsDefault ~> (inv.pc \in RetryDone)

C5_Witness ==
  /\ IsDefault
  /\ inv.pc = "thrown"
  /\ inv.attempts = 4
  /\ SumSeq(inv.sleeps) = 14000

(***************************************************************************)
(* C6. A failure is taken for transient exactly when it carries status 429 *)
(* or 503 (at error.status, error.response.status or error.error.code) or  *)
(* its message contains, in any case, "quota" or "resource_exhausted".     *)
(* Observed on the behaviour: with budget left, the invocation suspends    *)
(* after a failure exactly when the failure is of that kind.               *)
(***************************************************************************)
RetryStatuses == {TooManyRequests, ServiceUnavailable}

ClaimedTransient(e) ==
  \/ e.status \in RetryStatuses
  \/ e.respStatus \in RetryStatuses
  \/ e.errCode \in RetryStatuses
  \/ Includes(ToLowerCase(e.message), StrQuota)
  \/ Includes(ToLowerCase(e.message), StrResourceExhausted)

ClaimedTransientIds == {e \in ErrIds : ClaimedTransient(ErrorTable[e])}

C6_Original ==
  \A k \in 1..Len(opLog) :
    (~opLog[k].ok /\ k <= inv.initRetries) =>
       (Suspended(k) <=> opLog[k].id \in ClaimedTransientIds)

(* C6 as amended: the status looked at is the first one present among      *)
(* error.status, error.response.status and error.error.code; the text      *)
(* looked at is error.message, or the JSON form of the failure when it has *)
(* no message; and the text "429" counts as a marker too.                  *)
AmendedTransient(e) ==
  LET present == {i \in 1..3 : <<e.status, e.respStatus, e.errCode>>[i] # 0}
      first   == IF present = {} THEN 0
                 ELSE <<e.status, e.respStatus, e.errCode>>
                        [CHOOSE i \in present : \A j \in present : i <= j]
      text    == IF Len(e.message) > 0 THEN e.message ELSE JsonStringify(e)
  IN  \/ first \in RetryStatuses
      \/ \E marker \in {Str429, StrQuota, StrResourceExhausted} :
           Includes(ToLowerCase(text), marker)

AmendedTransientIds == {e \in ErrIds : AmendedTransient(ErrorTable[e])}

C6_Classification ==
  \A k \in 1..Len(opLog) :
    (~opLog[k].ok /\ k <= inv.initRetries) =>
       (Suspended(k) <=> opLog[k].id \in AmendedTransientIds)

C6_Witness ==
  /\ inv.pc = "sleeping"
  /\ opLog # <<>>
  /\ opLog[Len(opLog)] = Err(4)

(***************************************************************************)
(* C7. When generateWithRetry gives up, the failure the caller of          *)
(* bringToLife / refineCode receives is the very failure the last attempt  *)
(* of the operation raised.                                                *)
(***************************************************************************)
C7_SameFailure ==
  (completed.outcome = "failed" /\ completed.attempts >= 1) =>
     /\ completed.raised \in ErrIds
     /\ completed.received = completed.raised

C7_Witness ==
  /\ completed.outcome = "failed"
  /\ completed.attempts = DefaultRetries + 1
  /\ completed.raised = 2
  /\ completed.received = 2

(***************************************************************************)
(* C8. A failure that generateWithRetry took for transient and that used   *)
(* up the budget gets the quota alert of handleApiError, and a failure     *)
(* taken for fatal gets the generic alert.                                 *)
(***************************************************************************)
C8_Original ==
  (completed.outcome = "failed" /\ completed.attempts >= 1) =>
     /\ (RateLimited[completed.received] /\ completed.attempts = DefaultRetries + 1)
          => completed.alerts = <<"quota">>
     /\ ~RateLimited[completed.received] => completed.alerts = <<"generic">>

(***************************************************************************)
(* C9. No failure is swallowed: a call of handleGenerate or handleRefine   *)
(* ends with a normalized text returned and no alert, or with a failure    *)
(* that reached handleApiError and got exactly one alert, the one          *)
(* handleApiError chooses for it.                                          *)
(***************************************************************************)
KnownHtml == {FailedComment, SavedCreation.html} \cup {history[i].html : i \in 1..Len(history)}

NormalizedTexts ==
  {Normalize(TextOr(ResponseTable[v], fallback)) : v \in AppRespIds, fallback \in KnownHtml}

C9_NoSilentFailure ==
  /\ completed.outcome \in {"none", "created", "nothing", "failed"}
  /\ completed.outcome = "failed" =>
       /\ completed.raised # NoError
       /\ completed.received = completed.raised
       /\ completed.alerts = <<HandleApiError(ErrorTable[completed.raised])>>
  /\ completed.outcome \in {"created", "nothing"} =>
       /\ completed.raised = NoError
       /\ completed.alerts = <<>>
       /\ completed.returned \in NormalizedTexts
  /\ completed.outcome # "none" => procs[completed.proc].pc = "done"

C9_Witness ==
  /\ completed.outcome = "failed"
  /\ completed.raised = 3
  /\ completed.alerts = <<"generic">>

(***************************************************************************)
(* C10. A failed request leaves the caller in its prior state: when a call *)
(* of handleGenerate or handleRefine ends in a failure, and nothing else   *)
(* has touched them meanwhile, activeCreation and history are what they    *)
(* were when the call was made, and no creation was made.                  *)
(***************************************************************************)
C10_Original ==
  [][\A p \in Procs :
       (/\ InFlight(p)
        /\ procs[p].alone
        /\ procs'[p].pc = "done"
        /\ completed'.proc = p
        /\ completed'.outcome = "failed")
       => /\ activeCreation' = procs[p].preActive
          /\ history' = procs[p].preHistory
          /\ nextId' = nextId]_vars

(***************************************************************************)
(* C11. The output normalizer is idempotent: normalizing a text that the   *)
(* normalizer has returned gives that text back unchanged.                 *)
(***************************************************************************)
C11_Original ==
  call.fn = "normalizeAgain" => call.ret = call.args[1]

(***************************************************************************)
(* C12. The output of the normalizer has no code fence at its start and    *)
(* none at its end, and for a response made of a fence, the html tag, a    *)
(* newline, a document, a newline and a fence it is exactly the document.  *)
(***************************************************************************)
C12_Original ==
  (call.fn = "normalize" /\ call.pc = "returned") =>
     /\ ~StartsWith(call.ret, Fence)
     /\ ~EndsWith(call.ret, Fence)
     /\ call.args[1] = Fence \o HtmlTag \o <<"\n">> \o Paragraph \o <<"\n">> \o Fence
          => call.ret = Paragraph

(***************************************************************************)
(* C13. The text part built by bringToLife ends with the instruction to    *)
(* generate the output now, "Generate the fully functional HTML            *)
(* application now.", and nothing follows it in the text part.             *)
(***************************************************************************)
LastPiece(text) == text[Len(text)]

BuiltByBringToLife ==
  call.pc = "returned" /\ call.fn \in {"bringToLifeAssets", "bringToLifeImages"}

C13_Original ==
  BuiltByBringToLife =>
     /\ call.ret.text # <<>>
     /\ LastPiece(call.ret.text) = TerminalInstruction

(* amended: the asset version ends with that instruction; the image-part   *)
(* version ends with its own instruction to generate, one for a request    *)
(* without images and one for a request with images                        *)
C13_TerminalInstruction ==
  BuiltByBringToLife =>
     /\ call.ret.text # <<>>
     /\ call.fn = "bringToLifeAssets" =>
          LastPiece(call.ret.text) = "\nGenerate the fully functional HTML application now."
     /\ (call.fn = "bringToLifeImages" /\ call.args[2] = <<>>) =>
          LastPiece(call.ret.text) = "\". Generate the web interface for this request."
     /\ (call.fn = "bringToLifeImages" /\ call.args[2] # <<>>) =>
          LastPiece(call.ret.text) = "\". Generate a web interface response."

C13_Witness ==
  /\ call.pc = "returned"
  /\ call.fn = "bringToLifeAssets"
  /\ call.args = <<<<>>, <<AssetTable[1], AssetTable[2]>>>>
  /\ LastPiece(call.ret.text) = TerminalInstruction

(***************************************************************************)
(* C14. For every attachment the virtual path written by bringToLife and   *)
(* refineCode is "/assets/uploads/" and the name with every character      *)
(* other than a letter, a digit, "." and "-" replaced by "_", and the      *)
(* block that has the path also has the data URI of that attachment,       *)
(* "data:<mime>;base64,<data>".                                            *)
(***************************************************************************)
ExpectedNames == <<
  <<"M", "y", "_", "P", "h", "o", "t", "o", ".", "p", "n", "g">>,
  <<"v", "-", "1", "_", "_", "Z", "_", ".", "g", "i", "f">>,
  <<"M", "y", "_", "P", "h", "o", "t", "o", ".", "p", "n", "g">>
>>

ExpectedPath(asset) ==
  <<"/assets/uploads/">>
    \o ExpectedNames[CHOOSE i \in 1..Len(AssetTable) : AssetTable[i] = asset]

PathAndData(asset) ==
  <<"Virtual Path: ">> \o ExpectedPath(asset) \o <<"\n", "MIME: ">>
    \o asset.mimeType \o <<"\n", "DATA (Base64): data:">> \o asset.mimeType
    \o <<";base64,">> \o asset.data \o <<"\n">>

C14_VirtualPath ==
  /\ (call.pc = "returned" /\ call.fn = "bringToLifeAssets") =>
        \A i \in 1..Len(call.args[2]) :
           /\ Includes(call.ret.text, PathAndData(call.args[2][i]))
           /\ Includes(call.ret.text,
                       <<"INSTRUCTION: Wherever the code would logically use \"">>
                         \o ExpectedPath(call.args[2][i]))
  /\ (call.pc = "returned" /\ call.fn = "refineCodeAssets") =>
        \A i \in 1..Len(call.args[3]) :
           Includes(call.ret.text, PathAndData(call.args[3][i]))

C14_Witness ==
  /\ call.pc = "returned"
  /\ call.fn = "bringToLifeAssets"
  /\ call.args[2] = <<AssetTable[1]>>
  /\ Includes(call.ret.text,
              <<"Virtual Path: ", "/assets/uploads/",
                "M", "y", "_", "P", "h", "o", "t", "o", ".", "p", "n", "g", "\n">>)
  /\ Includes(call.ret.text,
              <<"DATA (Base64): data:", "i", "m", "a", "g", "e", "/", "p", "n", "g",
                ";base64,", "Q", "U", "J", "D", "\n">>)

(***************************************************************************)
(* C15. bringToLife writes one mapping block per attachment, in the order  *)
(* of the list and numbered from 1, when the list is not empty; when it is *)
(* empty it writes no asset section and a plain instruction that echoes    *)
(* the prompt.                                                             *)
(***************************************************************************)
BlockStarts(text) == {i \in 1..Len(text) : text[i] = "\n--- ASSET "}

(* where the k-th block of the text starts *)
BlockStart(text, k) ==
  CHOOSE i \in BlockStarts(text) :
    Cardinality({j \in BlockStarts(text) : j < i}) = k - 1

BlockHead(asset, k) ==
  <<"\n--- ASSET ">> \o NumStr(k) \o <<" ---\n", "Filename: ">> \o asset.name \o <<"\n">>

OneBlockEach(text, assets) ==
  /\ Cardinality(BlockStarts(text)) = Len(assets)
  /\ \A k \in 1..Len(assets) :
       StartsWith(DropFirst(text, BlockStart(text, k) - 1), BlockHead(assets[k], k))

NoAssetSection(text) ==
  /\ BlockStarts(text) = {}
  /\ ~Includes(text, <<"\n\n[ATTACHED ASSETS DETECTED]\n">>)

C15_Original ==
  BuiltByBringToLife =>
     /\ call.args[2] # <<>> => OneBlockEach(call.ret.text, call.args[2])
     /\ call.args[2] = <<>> =>
          /\ NoAssetSection(call.ret.text)
          /\ StartsWith(call.ret.text, <<"Voice Command: \"">> \o call.args[1])

(* amended: the asset version does that; the image-part version writes no  *)
(* mapping block and hands every image over as a part of its own after the *)
(* text part, in the order of the list                                     *)
C15_MappingBlocks ==
  /\ (call.pc = "returned" /\ call.fn = "bringToLifeAssets") =>
        /\ call.args[2] # <<>> => OneBlockEach(call.ret.text, call.args[2])
        /\ call.args[2] = <<>> =>
             /\ NoAssetSection(call.ret.text)
             /\ call.ret.text = <<"Voice Command: \"">> \o call.args[1]
                                  \o <<"\".", TerminalInstruction>>
  /\ (call.pc = "returned" /\ call.fn = "bringToLifeImages") =>
        /\ NoAssetSection(call.ret.text)
        /\ call.ret.images = call.args[2]
        /\ call.args[2] = <<>> =>
             StartsWith(call.ret.text, <<"Voice Command: \"">> \o call.args[1])

C15_Witness ==
  /\ call.pc = "returned"
  /\ call.fn = "bringToLifeAssets"
  /\ call.args[2] = <<AssetTable[2], AssetTable[1]>>
  /\ Cardinality(BlockStarts(call.ret.text)) = 2
  /\ BlockStart(call.ret.text, 1) < BlockStart(call.ret.text, 2)

(***************************************************************************)
(* C16. Whatever the user does in the input area, onGenerate is never      *)
(* called with a prompt that is empty after trimming unless a file is      *)
(* passed with it.                                                         *)
(***************************************************************************)
GenerateCalled ==
  started' = started + 1 /\ procs'[started'].kind = "generate"

C16_Original ==
  [][GenerateCalled => (~TrimIsEmpty(transcript) \/ selectedFile # NoFile)]_vars

(***************************************************************************)
(* C17. At most one request is under way at any time: no call of           *)
(* bringToLife or refineCode starts while an earlier one, its suspensions  *)
(* included, has not ended.                                                *)
(***************************************************************************)
C17_Original ==
  Cardinality({p \in Procs : procs[p].pc = "remote"}) <= 1

(***************************************************************************)
(* C18. refineCode is called only while activeCreation is not null, with   *)
(* the html of the creation that is active when the refine is submitted,   *)
(* a creation of the history; with no active creation no request is made   *)
(* and nothing changes.                                                    *)
(***************************************************************************)
RefineCalled ==
  started' = started + 1 /\ procs'[started'].kind = "refine"

C18_RefineAfterGeneration ==
  [][/\ RefineCalled =>
          /\ activeCreation # NoCreation
          /\ \E i \in 1..Len(history) : history[i] = activeCreation
          /\ procs'[started'].pc = "remote"
          /\ procs'[started'].base = activeCreation
          /\ procs'[started'].rt.attempts = 1
          /\ activeCreation' = activeCreation
     /\ activeCreation = NoCreation => ~RefineCalled]_vars

C18_Witness ==
  /\ started = 1
  /\ procs[1].kind = "refine"
  /\ procs[1].pc = "remote"
  /\ procs[1].base = SavedCreation
  /\ activeCreation = SavedCreation

(***************************************************************************)
(* C19. Every attachment that reaches the request builder has binary data  *)
(* that is not empty and a MIME type that is not empty, whatever file the  *)
(* user selects, an empty file and a file without type included.           *)
(***************************************************************************)
C19_Original ==
  (call.fn = "fileToBase64" /\ call.pc = "returned") =>
     \A i \in 1..Len(call.ret) :
        /\ call.ret[i].inlineData.data.defined
        /\ call.ret[i].inlineData.data.text # <<>>
        /\ call.ret[i].inlineData.mimeType # <<>>

(***************************************************************************)
(* C20. The attempts of one invocation of generateWithRetry come one after *)
(* the other: an attempt starts only when the one before has failed and    *)
(* the suspension for the retry is over, every retry takes one from the    *)
(* budget and doubles the delay once, and two attempts are never under way *)
(* together.                                                               *)
(***************************************************************************)
AttemptStarts == inv'.attempts = inv.attempts + 1

C20_Sequential ==
  /\ [](inv.attempts - Len(opLog) \in {0, 1})
  /\ [][/\ inv'.attempts \in {inv.attempts, inv.attempts + 1}
        /\ AttemptStarts =>
             /\ Len(opLog) = inv.attempts
             /\ inv'.pc = "awaitOp"
             /\ inv.attempts = 0 =>
                  /\ inv.pc = "call"
                  /\ inv'.retries = inv.retries
                  /\ inv'.delay = inv.delay
             /\ inv.attempts > 0 =>
                  /\ inv.pc = "sleeping"
                  /\ ~opLog[Len(opLog)].ok
                  /\ inv.sleeps[Len(inv.sleeps)] = inv.delay
                  /\ Len(inv.sleeps) = inv.attempts
                  /\ inv'.retries = inv.retries - 1
                  /\ inv'.delay = inv.delay * 2
        /\ ~AttemptStarts =>
             /\ inv'.retries = inv.retries
             /\ inv'.delay = inv.delay]_vars

C20_Witness ==
  /\ IsDefault
  /\ inv.pc = "awaitOp"
  /\ inv.attempts = 3
  /\ Len(opLog) = 2
  /\ inv.retries = 1
  /\ inv.delay = 8000

(***************************************************************************)
(* C21. While an invocation of generateWithRetry made by bringToLife or    *)
(* refineCode is under way, its budget is in 0..3 and its delay is         *)
(* positive and equal to 2000 * 2^(3 - budget); every invocation starts    *)
(* with its own budget 3 and delay 2000, whatever an earlier invocation    *)
(* ended with, and a step of one invocation leaves the budget and the      *)
(* delay of every other invocation alone.                                  *)
(***************************************************************************)
RetryStateOf(p) == <<procs[p].rt.retries, procs[p].rt.delay>>

Starts(p) == procs[p].pc # "remote" /\ procs'[p].pc = "remote"

EndsAfterReset(p) == InFlight(p) /\ procs[p].reset /\ procs'[p].pc = "done"

MadeAfterResetOf(q, p) == q # p /\ InFlight(q) /\ ~procs[q].reset

C22_Original ==
  [][\A p \in Procs :
       EndsAfterReset(p) =>
          /\ activeCreation' = activeCreation
          /\ history' = history
          /\ \A q \in Procs :
               MadeAfterResetOf(q, p) => isGenerating' = isGenerating]_vars

(***************************************************************************)
(* C23. isGenerating is true in every state in which a call of bringToLife *)
(* or refineCode made by the App has not ended.                            *)
(***************************************************************************)
C23_Original ==
  \A p \in Procs : procs[p].pc = "remote" => isGenerating

(***************************************************************************)
(* C24. With every file read and every remote call ending and every timer  *)
(* firing, a call of handleGenerate or handleRefine that has set           *)
(* isGenerating ends, on every path, and sets isGenerating to false when   *)
(* it ends; the App is never in the loading state forever.                 *)
(***************************************************************************)
C24_LoadingEnds ==
  /\ \A p \in 1..MaxRequests :
       (procs[p].pc \in {"fileRead", "remote"}) ~> (procs[p].pc = "done")
  /\ isGenerating ~> ~isGenerating
  /\ [][\A p \in Procs :
          /\ (InFlight(p) /\ procs'[p].pc = "done") => ~isGenerating'
          /\ (~InFlight(p) /\ InFlight(p)') => isGenerating']_vars

C24_Witness ==
  /\ procs[1].pc = "done"
  /\ completed.outcome = "failed"
  /\ completed.raised = FileReadError
  /\ completed.attempts = 0
  /\ ~isGenerating

(***************************************************************************)
(* C25. Every call of bringToLife that returns gives a text that is not    *)
(* empty, whatever the response, so that the call of handleGenerate ends   *)
(* with a new creation made active and put at the head of the history.     *)
(***************************************************************************)
C25_Original ==
  (completed.kind = "generate" /\ completed.outcome \in {"created", "nothing"}) =>
     /\ completed.returned # <<>>
     /\ completed.outcome = "created"
     /\ history # <<>>
     /\ history[1].html = completed.returned

(***************************************************************************)
(* C26. The history changes only by one new entry put at its head, the     *)
(* entries it had staying as they were and in their order; every call of   *)
(* handleGenerate or handleRefine that ends without a failure puts one     *)
(* entry, also when another call is under way; a reset, a selection in the *)
(* history and a call that fails leave the history as it is.               *)
(***************************************************************************)
Prepended == Len(history') = Len(history) + 1 /\ Tail(history') = history

Ends(p) == InFlight(p) /\ procs'[p].pc = "done"

C26_Original ==
  [][/\ history' = history \/ Prepended
     /\ \A p \in Procs :
          /\ (Ends(p) /\ completed'.outcome # "failed") =>
               /\ Prepended
               /\ \A i \in 1..Len(history) : history[i].id # history'[1].id
          /\ (Ends(p) /\ completed'.outcome = "failed") => history' = history
     /\ (\A p \in Procs : ~Ends(p)) => history' = history]_vars

(***************************************************************************)
(* C27. An activeCreation that is not null is an entry of the history, and *)
(* the creation a refinement makes has the originalImage of the creation   *)
(* it was refined from and an id no entry has.                             *)
(***************************************************************************)
InHistory(c) == \E i \in 1..Len(history) : history[i] = c

RefineEnds(p) ==
  Ends(p) /\ procs[p].kind = "refine" /\ completed'.outcome # "failed"

C27_ActiveInHistory ==
  /\ [](activeCreation # NoCreation => InHistory(activeCreation))
  /\ [][\A p \in Procs :
          RefineEnds(p) =>
             /\ activeCreation' = history'[1]
             /\ activeCreation'.originalImage = procs[p].base.originalImage
             /\ activeCreation'.html = completed'.returned
             /\ activeCreation'.id # procs[p].base.id
             /\ \A i \in 1..Len(history) : history[i].id # activeCreation'.id]_vars

C27_Witness ==
  /\ completed.kind = "refine"
  /\ completed.outcome = "created"
  /\ history = <<activeCreation, SavedCreation>>
  /\ activeCreation.id = FirstFreshId
  /\ activeCreation.originalImage = SavedCreation.originalImage
  /\ activeCreation.originalImage # <<>>

(***************************************************************************)
(* C28. The timeout of the auto-submit effect runs its callback only when  *)
(* the transcript has been the same for 800 ms, with the microphone off    *)
(* and no generation under way; a change of the transcript or of the       *)
(* attachments, the start of listening and the start of a generation each  *)
(* cancel the timeout that is pending; the callback calls onGenerate once, *)
(* with the transcript and the attachments as they are, and leaves the     *)
(* transcript and the attachments empty and no timeout pending.            *)
(***************************************************************************)
TimerCalls == input'.fired = input.fired + 1

Cancelled == ~timer'.pending \/ timer'.remaining = AutoSubmitDelay

C28_AutoSubmit ==
  /\ [](timer.pending =>
          /\ ~isListening /\ ~isGenerating /\ transcript # <<>>
          /\ timer.transcript = transcript
          /\ timer.files = input.files
          /\ timer.remaining >= AutoSubmitDelay - input.quiet)
  /\ [][/\ input'.fired \in {input.fired, input.fired + 1}
        /\ TimerCalls =>
             /\ input.quiet >= AutoSubmitDelay
             /\ ~isListening /\ ~isGenerating /\ transcript # <<>>
             /\ input'.last = [by |-> "timer", prompt |-> transcript, files |-> input.files]
             /\ transcript' = <<>>
             /\ input'.files = <<>>
             /\ ~timer'.pending
             /\ isGenerating'
        /\ (timer.pending /\ (transcript' # transcript \/ input'.files # input.files))
             => Cancelled
        /\ (timer.pending /\ (isListening' # isListening \/ isGenerating' # isGenerating))
             => ~timer'.pending
        /\ (~TimerCalls /\ input'.last # input.last) => input'.last.by = "manual"]_vars

C28_Witness ==
  /\ input.version = "files"
  /\ input.fired = 1
  /\ input.last = [by |-> "timer", prompt |-> <<"h", "i">>, files |-> <<2, 1>>]
  /\ transcript = <<>>
  /\ input.files = <<>>
  /\ ~timer.pending
  /\ isGenerating

(***************************************************************************)
(* C29. For every attached file the virtual path the input area shows in   *)
(* its asset list is the virtual path bringToLife writes for that file in  *)
(* the prompt.                                                             *)
(***************************************************************************)
C29_Original ==
  (call.pc = "returned" /\ call.fn = "bringToLifeAssets") =>
     \A i \in 1..Len(call.args[2]) :
        /\ DisplayedPath(call.args[2][i].name) = VirtualPath(call.args[2][i])
        /\ Includes(call.ret.text,
                    <<"Virtual Path: ">> \o DisplayedPath(call.args[2][i].name) \o <<"\n">>)

(***************************************************************************)
(* C30. In one request, attachments with different names get different     *)
(* virtual paths: the path written for an attachment by bringToLife or     *)
(* refineCode is written for no attachment of another name.                *)
(***************************************************************************)
Occurrences(text, sub) ==
  Cardinality({k \in 0..(Len(text) - Len(sub)) :
                 \A j \in 1..Len(sub) : text[k + j] = sub[j]})

PathLine(asset) == <<"Virtual Path: ">> \o VirtualPath(asset) \o <<"\n">>

BuiltWithAssets ==
  call.pc = "returned" /\ call.fn \in {"bringToLifeAssets", "refineCodeAssets"}

AssetsOfCall == IF call.fn = "refineCodeAssets" THEN call.args[3] ELSE call.args[2]

C30_Original ==
  BuiltWithAssets =>
     \A i \in 1..Len(AssetsOfCall) :
        Occurrences(call.ret.text, PathLine(AssetsOfCall[i]))
          = Cardinality({j \in 1..Len(AssetsOfCall) :
                           AssetsOfCall[j].name = AssetsOfCall[i].name})

====
